---- MODULE Spec2Model ----
(***************************************************************************)
(* A model of src/main.cpp: the DynamicArray text buffer, its Memento      *)
(* snapshots and the CareTaker that keeps the undo and redo stacks.        *)
(*                                                                         *)
(* The buffer is the heap array `data` of `capacity` cells (indexed from   *)
(* 0, as in the source), the logical length `size`, the clipboard and the  *)
(* two stacks.  Operations are written as operators over a record of these *)
(* fields ("this"), in the order of the statements of the source, and the  *)
(* actions assign the variables from the record an operation returns.      *)
(*                                                                         *)
(* Memory the source reads before writing it (the cells of a fresh         *)
(* new char[n]) holds the byte `fill`, chosen by the action among          *)
(* FreshBytes.  A write outside an allocation is undefined behaviour: the  *)
(* action chooses `abort`, on which the process dies (crashed), or the     *)
(* in-bounds part of the write is done and overflow is set.  Nothing is    *)
(* modelled of a process after either: no call follows.                    *)
(***************************************************************************)
EXTENDS Integers, Sequences, FiniteSets, TLC

\* ----------------------------------------------------------------- bounds
\* size_t is modelled WordBits wide: arithmetic on sizes is modulo 2^WordBits.
WordBits == 7
\* Operations per run.
MaxSteps == 3
\* The longest len and replaceLen tried.
MaxLen == 2

\* Up to MaxUndos undo() calls in a row are followed by as many redo() calls.
MaxUndos == 2

\* ------------------------------------------------------ program constants
\* '\0'
NUL == 0
\* DynamicArray(): capacity(10)
InitCapacity == 10
\* The value of a cell of new char[n] that was never written, when not NUL.
Junk == 255

WordMod == 2 ^ WordBits
\* new char[n] throws for n beyond PTRDIFF_MAX: the upper half of size_t.
AllocLimit == WordMod \div 2

FreshBytes == {NUL, Junk}

\* Wrapping size_t arithmetic.
Add(a, b) == (a + b) % WordMod
Sub(a, b) == (a - b) % WordMod
Mul(a, b) == (a * b) % WordMod

\* -------------------------------------------------------------- inputs
LongText == [i \in 1..InitCapacity |-> 1]
Texts == {<<2, 3>>, LongText}
FileContents == {<<>>, <<3, 3, 3>>}
\* A file with a NUL byte inside.
BinaryFile == <<3, NUL, 3>>
\* The lengths tried for len and replaceLen: none, one byte, MaxLen bytes.
Lens == {0, 1, MaxLen}

VARIABLES
  data,       \* char* data: the cells 0 .. capacity - 1 of the allocation
  size,       \* size_t size
  capacity,   \* size_t capacity
  clipboard,  \* std::string clipboard
  undoStack,  \* CareTaker::undoStack
  redoStack,  \* CareTaker::redoStack
  live,       \* Memento objects allocated and not deleted
  out,        \* what the last call printed
  crashed,    \* the process died
  overflow,   \* a write outside an allocation has happened
  lastOp,     \* the last call: its name, and whether its arguments were valid
  pre,        \* content, size and capacity before the last call
  steps       \* calls so far

vars == <<data, size, capacity, clipboard, undoStack, redoStack,
          live, out, crashed, overflow, lastOp, pre, steps>>

\* The object and its heap as one record.
Cur ==
  [data |-> data, size |-> size, capacity |-> capacity, clipboard |-> clipboard,
   undoStack |-> undoStack, redoStack |-> redoStack, live |-> live, out |-> out,
   crashed |-> crashed, overflow |-> overflow]

\* ------------------------------------------------------------- C strings
RECURSIVE strlenFrom(_, _)
strlenFrom(t, i) ==
  IF i > Len(t) \/ t[i] = NUL THEN i - 1 ELSE strlenFrom(t, i + 1)

\* strlen of the C string held in t (t is followed by a terminator).
strlen(t) == strlenFrom(t, 1)

\* data is the sequence of the cells of the allocation: data[i + 1] is the
\* source's data[i].
Cell(s, i) == s.data[i + 1]

Min(a, b) == IF a <= b THEN a ELSE b

\* n cells holding byte.
Cells(n, byte) == [i \in 1..n |-> byte]

\* The bytes data[0 .. size) as a sequence.
Content(s) ==
  IF s.size <= s.capacity THEN SubSeq(s.data, 1, s.size)
  ELSE s.data \o Cells(s.size - s.capacity, Junk)

\* What the buffer holds: content, length and capacity.
Buf(s) == [content |-> Content(s), size |-> s.size, capacity |-> s.capacity]

\* memmove(data + dst, data + src, n) inside the allocation of s; a read
\* outside it yields fill.
memmove(s, dst, src, n, fill, abort) ==
  IF s.crashed \/ n = 0 THEN s
  ELSE IF dst + n <= s.capacity /\ src + n <= s.capacity
  THEN [s EXCEPT !.data = SubSeq(@, 1, dst) \o SubSeq(@, src + 1, src + n)
                            \o SubSeq(@, dst + n + 1, s.capacity)]
  ELSE IF abort THEN [s EXCEPT !.crashed = TRUE]
  ELSE [s EXCEPT !.overflow = TRUE,
                 !.data = [i \in 1..s.capacity |->
                             IF i - 1 >= dst /\ i - 1 < dst + n
                             THEN (IF src + (i - 1 - dst) < s.capacity
                                   THEN s.data[src + (i - dst)] ELSE fill)
                             ELSE s.data[i]]]

\* memcpy(data + at, bytes, n): the first n of bytes written at data[at ..].
memcpyIn(s, at, bytes, n, abort) ==
  IF s.crashed \/ n = 0 THEN s
  ELSE IF at + n <= s.capacity
  THEN [s EXCEPT !.data = SubSeq(@, 1, at) \o SubSeq(bytes, 1, n)
                            \o SubSeq(@, at + n + 1, s.capacity)]
  ELSE IF abort THEN [s EXCEPT !.crashed = TRUE]
  ELSE [s EXCEPT !.overflow = TRUE,
                 !.data = [i \in 1..s.capacity |->
                             IF i - 1 >= at /\ i - 1 < at + n THEN bytes[i - at]
                             ELSE s.data[i]]]

\* data[at] = '\0'
putNul(s, at, abort) == memcpyIn(s, at, <<NUL>>, 1, abort)

\* --------------------------------------------------------------- Memento
\* Memento(data, size, capacity): savedData holds the first size bytes; the
\* rest of its allocation is never read.
Memento(s) ==
  [savedData |-> Content(s), savedSize |-> s.size, savedCapacity |-> s.capacity]

\* ------------------------------------------------------------- CareTaker
\* saveState without the loop that clears the redo stack.
saveStateKeepsRedo(s) ==
  IF s.crashed THEN s
  ELSE [s EXCEPT !.undoStack = Append(@, Memento(s)), !.live = @ + 1]

saveState(s) ==
  IF s.crashed THEN s
  ELSE [s EXCEPT !.undoStack = Append(@, Memento(s)),
                 !.live = (@ + 1) - Len(s.redoStack),
                 !.redoStack = <<>>]

pushToUndo(s) ==
  [s EXCEPT !.undoStack = Append(@, Memento(s)), !.live = @ + 1]

pushToRedo(s) ==
  [s EXCEPT !.redoStack = Append(@, Memento(s)), !.live = @ + 1]

\* --------------------------------------------------------- DynamicArray
resize(s, newCapacity, fill, abort) ==
  IF s.crashed THEN s
  ELSE IF newCapacity >= AllocLimit THEN [s EXCEPT !.crashed = TRUE]
  ELSE
    LET kept == Min(s.size, Min(s.capacity, newCapacity))
        copied == [s EXCEPT !.data = SubSeq(@, 1, kept)
                                       \o Cells(newCapacity - kept, fill),
                            !.capacity = newCapacity]
    IN IF s.size > newCapacity
       THEN (IF abort THEN [s EXCEPT !.crashed = TRUE]
             ELSE [copied EXCEPT !.overflow = TRUE])
       ELSE copied

\* The loop of append as an if: one doubling at most.
growLoopOnce(s, len, fill) ==
  IF s.crashed \/ Add(s.size, len) < s.capacity THEN s
  ELSE resize(s, Mul(s.capacity, 2), fill, TRUE)

\* while (size + len >= capacity) resize(capacity * 2);
RECURSIVE growLoop(_, _, _)
growLoop(s, len, fill) ==
  IF s.crashed \/ Add(s.size, len) < s.capacity THEN s
  ELSE growLoop(resize(s, Mul(s.capacity, 2), fill, TRUE), len, fill)

append(s, text, fill) ==
  LET s1 == saveState(s)
      len == strlen(text)
      s2 == growLoop(s1, len, fill)
      s3 == memcpyIn(s2, s2.size, SubSeq(text, 1, len) \o <<NUL>>, len + 1, TRUE)
  IN IF s3.crashed THEN s3
     ELSE [s3 EXCEPT !.size = Add(@, len), !.out = ""]

\* insertAndReplace resizing to twice the new length whether or not it fits.
insertAndReplaceAlwaysResizes(s, pos, substring, replaceLen, fill, abort) ==
  LET s1 == saveState(s)
      len == strlen(substring)
      newLen == Sub(Add(s1.size, len), replaceLen)
      s2 == resize(s1, Mul(newLen, 2), fill, abort)
      s3 == memmove(s2, Add(pos, len), Add(pos, replaceLen),
                    Add(Sub(Sub(s2.size, pos), replaceLen), 1), fill, abort)
      s4 == memcpyIn(s3, pos, substring, len, abort)
  IN IF s4.crashed THEN s4
     ELSE [s4 EXCEPT !.size = newLen, !.out = ""]

\* insertAndReplace moving the tail from pos, the replaced bytes with it.
insertAndReplaceKeepsReplaced(s, pos, substring, replaceLen, fill, abort) ==
  LET s1 == saveState(s)
      len == strlen(substring)
      newLen == Sub(Add(s1.size, len), replaceLen)
      s2 == IF newLen >= s1.capacity
            THEN resize(s1, Mul(newLen, 2), fill, abort) ELSE s1
      s3 == memmove(s2, Add(pos, len), pos,
                    Add(Sub(Sub(s2.size, pos), replaceLen), 1), fill, abort)
      s4 == memcpyIn(s3, pos, substring, len, abort)
  IN IF s4.crashed THEN s4
     ELSE [s4 EXCEPT !.size = newLen, !.out = ""]

insertAndReplace(s, pos, substring, replaceLen, fill, abort) ==
  LET s1 == saveState(s)
      len == strlen(substring)
      newLen == Sub(Add(s1.size, len), replaceLen)
      s2 == IF newLen >= s1.capacity
            THEN resize(s1, Mul(newLen, 2), fill, abort) ELSE s1
      s3 == memmove(s2, Add(pos, len), Add(pos, replaceLen),
                    Add(Sub(Sub(s2.size, pos), replaceLen), 1), fill, abort)
      s4 == memcpyIn(s3, pos, substring, len, abort)
  IN IF s4.crashed THEN s4
     ELSE [s4 EXCEPT !.size = newLen, !.out = ""]

deleteText(s, pos, len, fill, abort) ==
  LET s1 == saveState(s)
  IN IF pos >= s1.size \/ Add(pos, len) > s1.size
     THEN [s1 EXCEPT !.out = "Invalid position or length.\n"]
     ELSE
       LET s2 == memmove(s1, pos, Add(pos, len), Sub(Sub(s1.size, pos), len),
                         fill, abort)
           s3 == IF s2.crashed THEN s2 ELSE [s2 EXCEPT !.size = Sub(@, len)]
           s4 == putNul(s3, s3.size, abort)
       IN IF s4.crashed THEN s4 ELSE [s4 EXCEPT !.out = ""]

\* copyText taking the span one byte further on.
copyTextOffByOne(s, pos, len) ==
  IF s.crashed THEN s
  ELSE IF pos >= s.size \/ Add(pos, len) > s.size
  THEN [s EXCEPT !.out = "Invalid position or length.\n"]
  ELSE IF len >= AllocLimit THEN [s EXCEPT !.crashed = TRUE]
  ELSE [s EXCEPT !.clipboard = SubSeq(s.data, pos + 2, pos + len + 1),
                 !.out = ""]

\* clipboard.assign(data + pos, len) throws std::length_error for a len beyond
\* max_size(), the upper half of size_t.
copyText(s, pos, len) ==
  IF s.crashed THEN s
  ELSE IF pos >= s.size \/ Add(pos, len) > s.size
  THEN [s EXCEPT !.out = "Invalid position or length.\n"]
  ELSE IF len >= AllocLimit THEN [s EXCEPT !.crashed = TRUE]
  ELSE [s EXCEPT !.clipboard = SubSeq(s.data, pos + 1, pos + len),
                 !.out = ""]

\* cutText deleting before it copies.
cutTextCopiesAfterDelete(s, pos, len, fill, abort) ==
  LET s1 == saveState(s)
  IN IF pos >= s1.size \/ Add(pos, len) > s1.size
     THEN [s1 EXCEPT !.out = "Invalid position or length.\n"]
     ELSE copyText(deleteText(s1, pos, len, fill, abort), pos, len)

cutText(s, pos, len, fill, abort) ==
  LET s1 == saveState(s)
  IN IF pos >= s1.size \/ Add(pos, len) > s1.size
     THEN [s1 EXCEPT !.out = "Invalid position or length.\n"]
     ELSE deleteText(copyText(s1, pos, len), pos, len, fill, abort)

pasteText(s, pos, fill, abort) ==
  LET s1 == saveState(s)
  IN IF pos > s1.size
     THEN [s1 EXCEPT !.out = "Invalid position.\n"]
     ELSE insertAndReplace(s1, pos, s1.clipboard, 0, fill, abort)

\* The body shared by undo() and redo(): apply the popped memento.
restore(s, memento, fill, abort) ==
  LET s1 == IF s.capacity # memento.savedCapacity
            THEN resize(s, memento.savedCapacity, fill, abort) ELSE s
      s2 == memcpyIn(s1, 0, memento.savedData, memento.savedSize, abort)
      s3 == IF s2.crashed THEN s2 ELSE [s2 EXCEPT !.size = memento.savedSize]
  IN IF s3.crashed THEN s3
     ELSE [putNul(s3, s3.size, abort) EXCEPT !.out = ""]

\* undo looking at the undo stack before it pushes onto the redo stack.
undoChecksFirst(s, fill, abort) ==
  IF s.undoStack = <<>> THEN [s EXCEPT !.out = "Cannot undo further.\n"]
  ELSE LET s1 == pushToRedo(s)
       IN restore([s1 EXCEPT !.undoStack = SubSeq(@, 1, Len(@) - 1)],
                  s1.undoStack[Len(s1.undoStack)], fill, abort)

undo(s, fill, abort) ==
  LET s1 == pushToRedo(s)
  IN IF s1.undoStack # <<>>
     THEN restore([s1 EXCEPT !.undoStack = SubSeq(@, 1, Len(@) - 1)],
                  s1.undoStack[Len(s1.undoStack)], fill, abort)
     ELSE [s1 EXCEPT !.out = "Cannot undo further.\n"]

redo(s, fill, abort) ==
  LET s1 == pushToUndo(s)
  IN IF s1.redoStack # <<>>
     THEN restore([s1 EXCEPT !.redoStack = SubSeq(@, 1, Len(@) - 1)],
                  s1.redoStack[Len(s1.redoStack)], fill, abort)
     ELSE [s1 EXCEPT !.out = "Cannot redo further.\n"]

\* loadFromFile with the file open: content is what the file holds.
loadFromFile(s, content, fill) ==
  LET n == strlen(content)
      fresh == [s EXCEPT !.size = Len(content),
                         !.capacity = Len(content) + 1,
                         !.data = Cells(Len(content) + 1, fill)]
  IN [memcpyIn(fresh, 0, SubSeq(content, 1, n) \o <<NUL>>, n + 1, TRUE)
        EXCEPT !.out = "Loaded"]

\* loadFromFile when the file cannot be opened.
loadFails(s) == [s EXCEPT !.out = "Failed to load"]

\* ---------------------------------------------------------------- state
Op(name, valid) == [name |-> name, valid |-> valid]

Init ==
  /\ data = <<NUL>> \o Cells(InitCapacity - 1, Junk)
  /\ size = 0
  /\ capacity = InitCapacity
  /\ clipboard = <<>>
  /\ undoStack = <<>>
  /\ redoStack = <<>>
  /\ live = 0
  /\ out = ""
  /\ crashed = FALSE
  /\ overflow = FALSE
  /\ lastOp = Op("init", TRUE)
  /\ pre = [content |-> <<>>, size |-> 0, capacity |-> InitCapacity]
  /\ steps = 0

\* One call of a public operation: r is the object after it, op names the call.
\* The process is alive, and the run may go on.
Running == ~crashed /\ ~overflow /\ steps < MaxSteps

Call(op, r) ==
  /\ data' = r.data
  /\ size' = r.size
  /\ capacity' = r.capacity
  /\ clipboard' = r.clipboard
  /\ undoStack' = r.undoStack
  /\ redoStack' = r.redoStack
  /\ live' = r.live
  /\ out' = r.out
  /\ crashed' = r.crashed
  /\ overflow' = r.overflow
  /\ lastOp' = op
  /\ pre' = Buf(Cur)
  /\ steps' = steps + 1

\* The positions tried in a buffer of length n: start, middle, end, past the end.
Positions(n) == {0, n \div 2, n, n + 1}

\* The lengths tried for a range: beside Lens, the largest size_t, with which
\* pos + len wraps around.
RangeLens(validOnly) == IF validOnly THEN Lens ELSE Lens \cup {WordMod - 1}

ValidInsert(s, pos, replaceLen) == pos + replaceLen <= s.size
ValidRange(s, pos, len) == pos < s.size /\ pos + len <= s.size
ValidPaste(s, pos) == pos <= s.size

\* The bytes a call may find in fresh memory: r is what the call leaves when
\* fresh memory holds NUL; the choice matters when the call allocated (the
\* capacity changed) or read outside the allocation.
Fills(s, r) ==
  IF r.capacity # s.capacity \/ r.overflow \/ r.crashed THEN FreshBytes ELSE {NUL}

\* What a write outside an allocation does: r is what the call leaves when the
\* process goes on.
Aborts(r) == IF r.overflow THEN BOOLEAN ELSE {FALSE}

AppendCall ==
  Running /\ \E text \in Texts :
    \E fill \in Fills(Cur, append(Cur, text, NUL)) :
      Call(Op("append", TRUE), append(Cur, text, fill))

InsertCall(validOnly) ==
  Running /\ \E pos \in Positions(size), text \in Texts, replaceLen \in Lens :
    /\ validOnly => ValidInsert(Cur, pos, replaceLen)
    /\ \E fill \in Fills(Cur, insertAndReplace(Cur, pos, text, replaceLen, NUL, FALSE)) :
         \E abort \in Aborts(insertAndReplace(Cur, pos, text, replaceLen, fill, FALSE)) :
           Call(Op("insertAndReplace", ValidInsert(Cur, pos, replaceLen)),
                insertAndReplace(Cur, pos, text, replaceLen, fill, abort))

DeleteCall(validOnly) ==
  Running /\ \E pos \in Positions(size), len \in RangeLens(validOnly) :
    /\ validOnly => ValidRange(Cur, pos, len)
    /\ \E fill \in Fills(Cur, deleteText(Cur, pos, len, NUL, FALSE)) :
         \E abort \in Aborts(deleteText(Cur, pos, len, fill, FALSE)) :
           Call(Op("deleteText", ValidRange(Cur, pos, len)),
                deleteText(Cur, pos, len, fill, abort))

CutCall(validOnly) ==
  Running /\ \E pos \in Positions(size), len \in RangeLens(validOnly) :
    /\ validOnly => ValidRange(Cur, pos, len)
    /\ \E fill \in Fills(Cur, cutText(Cur, pos, len, NUL, FALSE)) :
         \E abort \in Aborts(cutText(Cur, pos, len, fill, FALSE)) :
           Call(Op("cutText", ValidRange(Cur, pos, len)),
                cutText(Cur, pos, len, fill, abort))

CopyCall(validOnly) ==
  Running /\ \E pos \in Positions(size), len \in RangeLens(validOnly) :
    /\ validOnly => ValidRange(Cur, pos, len)
    /\ Call(Op("copyText", ValidRange(Cur, pos, len)), copyText(Cur, pos, len))

PasteCall(validOnly) ==
  Running /\ \E pos \in Positions(size) :
    /\ validOnly => ValidPaste(Cur, pos)
    /\ \E fill \in Fills(Cur, pasteText(Cur, pos, NUL, FALSE)) :
         \E abort \in Aborts(pasteText(Cur, pos, fill, FALSE)) :
           Call(Op("pasteText", ValidPaste(Cur, pos)),
                pasteText(Cur, pos, fill, abort))

UndoCall ==
  Running /\ \E fill \in Fills(Cur, undo(Cur, NUL, FALSE)) :
    \E abort \in Aborts(undo(Cur, fill, FALSE)) :
      Call(Op("undo", TRUE), undo(Cur, fill, abort))

RedoCall ==
  Running /\ \E fill \in Fills(Cur, redo(Cur, NUL, FALSE)) :
    \E abort \in Aborts(redo(Cur, fill, FALSE)) :
      Call(Op("redo", TRUE), redo(Cur, fill, abort))

LoadCall ==
  Running /\ \E content \in FileContents :
    \E fill \in (IF strlen(content) < Len(content) THEN FreshBytes ELSE {NUL}) :
      Call(Op("loadFromFile", TRUE), loadFromFile(Cur, content, fill))

LoadFailsCall == Running /\ Call(Op("loadFails", TRUE), loadFails(Cur))

\* Any call, with any arguments.
Next ==
  \/ AppendCall
  \/ InsertCall(FALSE)
  \/ DeleteCall(FALSE)
  \/ CutCall(FALSE)
  \/ CopyCall(FALSE)
  \/ PasteCall(FALSE)
  \/ UndoCall
  \/ RedoCall
  \/ LoadCall
  \/ LoadFailsCall

Spec == Init /\ [][Next]_vars

\* Calls whose arguments are valid: pos + replaceLen <= size for
\* insertAndReplace, a range inside the content for deleteText, cutText and
\* copyText, pos <= size for pasteText.
NextValid ==
  \/ AppendCall
  \/ InsertCall(TRUE)
  \/ DeleteCall(TRUE)
  \/ CutCall(TRUE)
  \/ CopyCall(TRUE)
  \/ PasteCall(TRUE)
  \/ UndoCall
  \/ RedoCall
  \/ LoadCall
  \/ LoadFailsCall

SpecValid == Init /\ [][NextValid]_vars

\* ---------------------------------------------------------------- claims
\* The process has not died and has written inside its allocations only.
Alive(s) == ~s.crashed /\ ~s.overflow

\* The calls that record an edit.
Mutating == {"append", "insertAndReplace", "deleteText", "cutText", "pasteText"}

\* P holds of what every mutating call with valid arguments leaves from s.
AllEdits(s, P(_)) ==
  /\ \A text \in Texts, fill \in FreshBytes : P(append(s, text, fill))
  /\ \A pos \in Positions(s.size), text \in Texts, replaceLen \in Lens,
        fill \in FreshBytes, abort \in BOOLEAN :
       ValidInsert(s, pos, replaceLen) =>
         P(insertAndReplace(s, pos, text, replaceLen, fill, abort))
  /\ \A pos \in Positions(s.size), len \in Lens,
        fill \in FreshBytes, abort \in BOOLEAN :
       ValidRange(s, pos, len) =>
         /\ P(deleteText(s, pos, len, fill, abort))
         /\ P(cutText(s, pos, len, fill, abort))
  /\ \A pos \in Positions(s.size), fill \in FreshBytes, abort \in BOOLEAN :
       ValidPaste(s, pos) => P(pasteText(s, pos, fill, abort))

\* stack is longer by one entry, pushed on top of what it held.
PushedOnto(stack, longer) ==
  Len(longer) = Len(stack) + 1 /\ SubSeq(longer, 1, Len(stack)) = stack

\* C1: after every call of a run of valid calls, size < capacity and the byte
\* at data[size] is the terminator.
C1_TerminatorAfterEveryCall ==
  Alive(Cur) => (size < capacity /\ Cell(Cur, size) = NUL)

\* C2: one undo() right after a mutating call restores content, size and
\* capacity to their values before that call, whatever the call grew.
C2_UndoRestoresPreState ==
  (Alive(Cur) /\ lastOp.name \in Mutating) =>
    \A fill \in FreshBytes, abort \in BOOLEAN :
      LET r == undo(Cur, fill, abort)
      IN Alive(r) /\ Buf(r) = pre

\* C3: from a state with a non-empty undo stack, undo() and then redo() restore
\* content, size and capacity to their values before the undo().
C3_RedoRestoresStateBeforeUndo ==
  (Alive(Cur) /\ undoStack # <<>>) =>
    \A fill \in FreshBytes, abort \in BOOLEAN :
      LET u == undo(Cur, fill, abort)
      IN /\ Alive(u)
         /\ \A fill2 \in FreshBytes, abort2 \in BOOLEAN :
              LET r == redo(u, fill2, abort2)
              IN Alive(r) /\ Buf(r) = Buf(Cur)

\* C4: a mutating call empties the redo stack, so that the redo() after it
\* prints "Cannot redo further." and leaves the buffer as it was; undo() and
\* redo() keep what the opposite stack held.
C4_NewEditDiscardsRedo ==
  Running =>
    /\ AllEdits(Cur, LAMBDA r :
         Alive(r) =>
           /\ r.redoStack = <<>>
           /\ \A fill \in FreshBytes, abort \in BOOLEAN :
                LET q == redo(r, fill, abort)
                IN /\ q.out = "Cannot redo further.\n"
                   /\ q.data = r.data
                   /\ Buf(q) = Buf(r))
    /\ \A fill \in FreshBytes, abort \in BOOLEAN :
         /\ PushedOnto(redoStack, undo(Cur, fill, abort).redoStack)
         /\ PushedOnto(undoStack, redo(Cur, fill, abort).undoStack)

\* C4's case: an undo() has left a snapshot on the redo stack, and the append
\* that follows empties it.
C4_Witness ==
  /\ Running
  /\ lastOp.name = "undo"
  /\ out = ""
  /\ redoStack # <<>>
  /\ \E text \in Texts : append(Cur, text, NUL).redoStack = <<>>

\* C5: a call with an invalid range or position leaves content, size,
\* capacity, the clipboard and both stacks as they were.
C5_InvalidCallChangesNothing ==
  [][lastOp'.valid = FALSE =>
       UNCHANGED <<data, size, capacity, clipboard, undoStack, redoStack>>]_vars

\* C6: after two mutating calls, the first undo() gives the buffer between
\* them and the second the buffer before the first (taken over the undos that
\* write inside the allocation).
C6_EachEditUndoneByOneUndo ==
  (Alive(Cur) /\ lastOp.name \in Mutating) =>
    AllEdits(Cur, LAMBDA r :
      Alive(r) =>
        \A fill \in FreshBytes, abort \in BOOLEAN :
          LET u1 == undo(r, fill, abort)
          IN Alive(u1) =>
               /\ Buf(u1) = Buf(Cur)
               /\ \A fill2 \in FreshBytes, abort2 \in BOOLEAN :
                    LET u2 == undo(u1, fill2, abort2)
                    IN Alive(u2) => Buf(u2) = pre)

\* C7: at the end of every call the Memento objects allocated and not deleted
\* are the ones held on the two stacks.
C7_LiveSnapshotsAreOnTheStacks ==
  live = Len(undoStack) + Len(redoStack)

\* C8: on a valid range cutText leaves the content, size, capacity and
\* clipboard that copyText followed by deleteText leaves, and the content,
\* size and capacity that deleteText alone leaves.
C8_CutIsCopyThenDelete ==
  Running =>
    \A pos \in Positions(size), len \in Lens,
       fill \in FreshBytes, abort \in BOOLEAN :
      ValidRange(Cur, pos, len) =>
        LET cut == cutText(Cur, pos, len, fill, abort)
            both == deleteText(copyText(Cur, pos, len), pos, len, fill, abort)
            alone == deleteText(Cur, pos, len, fill, abort)
        IN /\ Buf(cut) = Buf(both)
           /\ cut.data = both.data
           /\ cut.clipboard = both.clipboard
           /\ Buf(cut) = Buf(alone)

\* C8's case: a cutText of a non-empty valid range has run.
C8_Witness ==
  /\ lastOp = Op("cutText", TRUE)
  /\ clipboard # <<>>
  /\ size + Len(clipboard) = pre.size
  /\ size > 0

\* C9: copyText(p, l) of a valid range and then pasteText(pos), pos <= size,
\* leave the content, size and capacity that insertAndReplace(pos, the bytes
\* data[p .. p + l), 0) leaves.
C9_CopyPasteIsInsert ==
  Running =>
    \A p \in Positions(size), l \in Lens :
      ValidRange(Cur, p, l) =>
        \A pos \in Positions(size), fill \in FreshBytes, abort \in BOOLEAN :
          ValidPaste(Cur, pos) =>
            Buf(pasteText(copyText(Cur, p, l), pos, fill, abort))
              = Buf(insertAndReplace(Cur, pos, SubSeq(Content(Cur), p + 1, p + l),
                                     0, fill, abort))

\* C9's case: a pasteText of a non-empty clipboard has run, after a copyText.
C9_Witness ==
  /\ lastOp = Op("pasteText", TRUE)
  /\ clipboard # <<>>
  /\ size = pre.size + Len(clipboard)
  /\ Len(undoStack) = 2

Splice(content, pos, substring, replaceLen) ==
  SubSeq(content, 1, pos) \o substring
    \o SubSeq(content, pos + replaceLen + 1, Len(content))

\* C11: with pos + replaceLen <= size, insertAndReplace(pos, substring,
\* replaceLen) writes inside the allocation and leaves the content
\* old[0 .. pos) substring old[pos + replaceLen .. size), the size
\* old size + len(substring) - replaceLen (the old size + len(substring) when
\* replaceLen = 0, the old size when replaceLen = len(substring)), and one
\* more snapshot on the undo stack, of the state before the call.
C11_InsertAndReplaceSplices ==
  Running =>
    \A pos \in Positions(size), text \in Texts, replaceLen \in Lens,
       fill \in FreshBytes, abort \in BOOLEAN :
      ValidInsert(Cur, pos, replaceLen) =>
        LET r == insertAndReplace(Cur, pos, text, replaceLen, fill, abort)
        IN /\ Alive(r)
           /\ Content(r) = Splice(Content(Cur), pos, text, replaceLen)
           /\ r.size = size + Len(text) - replaceLen
           /\ replaceLen = 0 => r.size = size + Len(text)
           /\ replaceLen = Len(text) => r.size = size
           /\ r.undoStack = Append(undoStack, Memento(Cur))

\* C11's case: an in-place replace (replaceLen = len(substring)) has changed
\* the content and kept the size, and the snapshot on top of the undo stack
\* is the state before it.
C11_Witness ==
  /\ lastOp = Op("insertAndReplace", TRUE)
  /\ size = pre.size
  /\ size > 0
  /\ Content(Cur) # pre.content
  /\ undoStack # <<>>
  /\ undoStack[Len(undoStack)].savedData = pre.content

\* C12: deleteText(pos, len) prints the error and leaves content and size as
\* they were exactly when pos >= size or pos + len > size; otherwise it leaves
\* the content old[0 .. pos) old[pos + len .. size), the size lower by len and
\* the capacity as it was.
C12_DeleteTextContract ==
  Running =>
    \A pos \in Positions(size), len \in RangeLens(FALSE),
       fill \in FreshBytes, abort \in BOOLEAN :
      LET r == deleteText(Cur, pos, len, fill, abort)
      IN /\ Alive(r)
         /\ IF pos >= size \/ pos + len > size
            THEN /\ r.out = "Invalid position or length.\n"
                 /\ Content(r) = Content(Cur)
                 /\ r.size = size
            ELSE /\ r.out = ""
                 /\ Content(r) = Splice(Content(Cur), pos, <<>>, len)
                 /\ r.size = size - len
                 /\ r.capacity = capacity

\* C13: append(text) ends, writes inside the allocation and leaves the
\* content old content followed by text, the size old size + len(text), and
\* the capacity old capacity * 2^k for the least k >= 0 with
\* old size + len(text) < old capacity * 2^k.
C13_AppendDoublesToFit ==
  Running =>
    \A text \in Texts, fill \in FreshBytes :
      LET r == append(Cur, text, fill)
          need == size + Len(text)
      IN /\ Alive(r)
         /\ Content(r) = Content(Cur) \o text
         /\ r.size = need
         /\ \E k \in 0..WordBits :
              /\ r.capacity = capacity * (2 ^ k)
              /\ need < r.capacity
              /\ k > 0 => need >= capacity * (2 ^ (k - 1))

\* C13's case: an append has doubled the capacity twice.
C13_Witness ==
  /\ lastOp.name = "append"
  /\ capacity = 4 * pre.capacity
  /\ size > pre.size
  /\ size >= capacity \div 2
  /\ SubSeq(Content(Cur), 1, pre.size) = pre.content

\* C14: a cutText of a valid range that writes inside the allocation leaves
\* the undo stack one snapshot deeper than it was.
C14_CutPushesOneSnapshot ==
  Running =>
    \A pos \in Positions(size), len \in Lens,
       fill \in FreshBytes, abort \in BOOLEAN :
      ValidRange(Cur, pos, len) =>
        LET r == cutText(Cur, pos, len, fill, abort)
        IN Alive(r) => Len(r.undoStack) = Len(undoStack) + 1

\* C15: a pasteText(pos) with pos <= size pushes two snapshots of the state
\* before it; the first undo() after it leaves the undo stack one deeper than
\* before the paste, and the second leaves the undo stack and the content,
\* size and capacity as they were before the paste.
C15_PasteTakesTwoUndos ==
  Running =>
    \A pos \in Positions(size), fill \in FreshBytes, abort \in BOOLEAN :
      ValidPaste(Cur, pos) =>
        LET r == pasteText(Cur, pos, fill, abort)
        IN /\ Alive(r)
           /\ r.undoStack = undoStack \o <<Memento(Cur), Memento(Cur)>>
           /\ \A fill1 \in FreshBytes, abort1 \in BOOLEAN :
                LET u1 == undo(r, fill1, abort1)
                IN /\ Alive(u1)
                   /\ u1.undoStack = Append(undoStack, Memento(Cur))
                   /\ \A fill2 \in FreshBytes, abort2 \in BOOLEAN :
                        LET u2 == undo(u1, fill2, abort2)
                        IN /\ Alive(u2)
                           /\ u2.undoStack = undoStack
                           /\ Buf(u2) = Buf(Cur)

\* C16: undo() on an empty undo stack prints "Cannot undo further.", leaves
\* the buffer as it was and pushes a snapshot of it onto the redo stack, so
\* that the redo() after it does not print "Cannot redo further."; redo() on
\* an empty redo stack prints "Cannot redo further.", leaves the buffer as it
\* was and pushes a snapshot of it onto the undo stack.
C16_FailedUndoRedoStillPush ==
  Running =>
    \A fill \in FreshBytes, abort \in BOOLEAN :
      /\ undoStack = <<>> =>
           LET u == undo(Cur, fill, abort)
           IN /\ Alive(u)
              /\ u.out = "Cannot undo further.\n"
              /\ u.data = data
              /\ Buf(u) = Buf(Cur)
              /\ u.undoStack = <<>>
              /\ u.redoStack = Append(redoStack, Memento(Cur))
              /\ \A fill2 \in FreshBytes, abort2 \in BOOLEAN :
                   LET r == redo(u, fill2, abort2)
                   IN /\ Alive(r)
                      /\ r.out = ""
                      /\ r.redoStack = redoStack
                      /\ r.undoStack = <<Memento(Cur)>>
                      /\ Buf(r) = Buf(Cur)
      /\ redoStack = <<>> =>
           LET r == redo(Cur, fill, abort)
           IN /\ Alive(r)
              /\ r.out = "Cannot redo further.\n"
              /\ r.data = data
              /\ Buf(r) = Buf(Cur)
              /\ r.redoStack = <<>>
              /\ r.undoStack = Append(undoStack, Memento(Cur))

\* C16's case: the first call was an undo() on the empty undo stack, and the
\* redo() after it has gone through.
C16_Witness ==
  /\ steps = 2
  /\ lastOp.name = "redo"
  /\ out = ""
  /\ size = 0
  /\ redoStack = <<>>
  /\ undoStack = <<[savedData |-> <<>>, savedSize |-> 0,
                    savedCapacity |-> InitCapacity]>>

\* C17: a loadFromFile that opens the file leaves the file's bytes as the
\* content, the file's size as the size, size + 1 as the capacity, and both
\* stacks as they were; one that cannot open it leaves everything as it was.
C17_LoadReplacesBufferKeepsStacks ==
  Running =>
    /\ \A content \in FileContents \cup {BinaryFile}, fill \in FreshBytes :
         LET r == loadFromFile(Cur, content, fill)
         IN /\ Alive(r)
            /\ Content(r) = content
            /\ r.size = Len(content)
            /\ r.capacity = Len(content) + 1
            /\ r.undoStack = undoStack
            /\ r.redoStack = redoStack
    /\ LET r == loadFails(Cur)
       IN /\ r.data = data
          /\ Buf(r) = Buf(Cur)
          /\ r.clipboard = clipboard
          /\ r.undoStack = undoStack
          /\ r.redoStack = redoStack

\* C18: a deleteText, cutText or copyText whose pos + len, taken without
\* wrapping, exceeds size does nothing but what the rejected call does:
\* deleteText and cutText record the snapshot and print the error, copyText
\* prints the error.
C18_RangeCheckRejectsWrappingSum ==
  Running =>
    \A pos \in Positions(size), len \in RangeLens(FALSE),
       fill \in FreshBytes, abort \in BOOLEAN :
      pos + len > size =>
        LET rejected == [saveState(Cur) EXCEPT !.out = "Invalid position or length.\n"]
        IN /\ deleteText(Cur, pos, len, fill, abort) = rejected
           /\ cutText(Cur, pos, len, fill, abort) = rejected
           /\ copyText(Cur, pos, len)
                = [Cur EXCEPT !.out = "Invalid position or length.\n"]

\* The resize that undo() or redo() does with the snapshot on top of stack,
\* if any, copies no more bytes than the new allocation holds.
ResizeFits(s, stack) ==
  \/ stack = <<>>
  \/ stack[Len(stack)].savedCapacity = s.capacity
  \/ s.size <= stack[Len(stack)].savedCapacity

\* C19: whenever a call runs resize(newCapacity), size <= newCapacity: in
\* append's loop, in insertAndReplace with a valid range, and in undo() and
\* redo() with the capacity of the snapshot they apply.
C19_ResizeCopiesWithinNewCapacity ==
  Running =>
    /\ \A text \in Texts :
         Add(size, strlen(text)) >= capacity => size <= Mul(capacity, 2)
    /\ \A pos \in Positions(size), text \in Texts, replaceLen \in Lens :
         LET newLen == Sub(Add(size, strlen(text)), replaceLen)
         IN (ValidInsert(Cur, pos, replaceLen) /\ newLen >= capacity) =>
              size <= Mul(newLen, 2)
    /\ ResizeFits(Cur, undoStack)
    /\ ResizeFits(Cur, redoStack)

\* From s, undos calls of undo() and then redos calls of redo(), whatever
\* fresh memory holds, all write inside their allocations and end with the
\* content, size, capacity and both stacks of the current state.
RECURSIVE BackAndForth(_, _, _)
BackAndForth(s, undos, redos) ==
  IF ~Alive(s) THEN FALSE
  ELSE IF undos > 0
  THEN \A fill \in FreshBytes, abort \in BOOLEAN :
         BackAndForth(undo(s, fill, abort), undos - 1, redos)
  ELSE IF redos > 0
  THEN \A fill \in FreshBytes, abort \in BOOLEAN :
         BackAndForth(redo(s, fill, abort), undos, redos - 1)
  ELSE /\ Buf(s) = Buf(Cur)
       /\ s.undoStack = undoStack
       /\ s.redoStack = redoStack

\* C20: with k snapshots or more on the undo stack, k undo() calls and then
\* k redo() calls restore content, size and capacity and leave both stacks
\* holding the snapshots they held.
C20_UndosThenRedosRestore ==
  Running =>
    \A k \in 1..MaxUndos : Len(undoStack) >= k => BackAndForth(Cur, k, k)

====
